---- MODULE Spec2Model ----
(***************************************************************************)
(* Model of src/script.js: a to-do list built as EventEmitter, Model,      *)
(* View and Controller, persisted in localStorage under the key "todos".   *)
(*                                                                         *)
(* JavaScript runs every interaction handler to completion on one thread.  *)
(* A handler that reaches a Model mutation is modelled as four consecutive *)
(* steps, the position being held in pc:                                   *)
(*   idle   -> update : the handler's guard and the assignment this.todos  *)
(*   update -> emit   : Model.update(), the localStorage write             *)
(*   emit   -> tail   : Model.emit(), which runs onTodoListChanged         *)
(*   tail   -> idle   : what the handler does after the Model call         *)
(* A handler whose guard fails is a single step that stays in idle.        *)
(***************************************************************************)
EXTENDS Integers, Sequences, FiniteSets, TLC

\* ------------------------------------------------------------------ bounds
\* New tasks are only added while the id they would get is at most MaxId.
MaxId == 2

\* ------------------------------------------------------------ value domains
\* The strings a user can type: empty, whitespace-only, and ordinary text.
Texts == {"", " ", "a"}

\* The value of a field that was never assigned (temporaryEditValue, line 203).
Undefined == "<undefined>"

\* A test for undefined alone, which lets the empty string through.
TruthyDefined(v) == v # Undefined

\* JavaScript truthiness of a string-or-undefined value (lines 216, 235).
Truthy(v) == v # "" /\ v # Undefined

\* The value parseInt returns when no number can be read; it is === to no id.
NaN == -1

\* ------------------------------------------------- number <-> text (li.id)
Digits == <<"0", "1", "2", "3", "4", "5", "6", "7", "8", "9">>

IsDigit(c) == \E d \in 1..10 : Digits[d] = c

DigitValue(c) == (CHOOSE d \in 1..10 : Digits[d] = c) - 1

\* String(n) for a non-negative integer, as the sequence of its characters:
\* what the assignment li.id = todo.id stores (line 147) and what
\* JSON.stringify writes for a number (line 74).
RECURSIVE NumberToString(_)
NumberToString(n) ==
  IF n < 10 THEN <<Digits[n + 1]>>
  ELSE NumberToString(n \div 10) \o <<Digits[(n % 10) + 1]>>

RECURSIVE ParseDigits(_, _)
ParseDigits(s, acc) ==
  IF s = <<>> \/ ~IsDigit(Head(s)) THEN acc
  ELSE ParseDigits(Tail(s), 10 * acc + DigitValue(Head(s)))

\* parseInt(s): the number written by the leading digits of s, NaN if none.
parseInt(s) ==
  IF s = <<>> \/ ~IsDigit(Head(s)) THEN NaN ELSE ParseDigits(s, 0)

\* ------------------------------------------------------------ EventEmitter
\* handlers: a function from event names to sequences of handler names; a name
\* outside its domain is a name whose entry is undefined.
NoHandlers == [n \in {} |-> <<>>]

\* The new handler put before the ones already registered.
addHandlerFirst(registry, eventName, handler) ==
  [n \in DOMAIN registry \cup {eventName} |->
     IF n = eventName
       THEN IF eventName \notin DOMAIN registry
              THEN <<handler>>
              ELSE <<handler>> \o registry[eventName]
       ELSE registry[n]]

addHandler(handlers, eventName, handler) ==
  [n \in DOMAIN handlers \cup {eventName} |->
     IF n = eventName
       THEN IF eventName \notin DOMAIN handlers
              THEN <<handler>>
              ELSE Append(handlers[eventName], handler)
       ELSE handlers[n]]

\* emit(eventName, ...): the handlers it invokes, in invocation order.
emit(handlers, eventName) ==
  IF eventName \notin DOMAIN handlers THEN <<>> ELSE handlers[eventName]

todoListChangedEvent == "todoListChanged"
addTodoEvent == "addTodo"
deleteTodoEvent == "deleteTodo"
editTodoEvent == "editTodo"
editTodoCompleteEvent == "editTodoComplete"
toggleEvent == "toggle"

\* The registrations of Controller's constructor, in its order.
viewHandlers ==
  addHandler(
    addHandler(
      addHandler(
        addHandler(
          addHandler(NoHandlers, addTodoEvent, "handleAddTodo"),
          deleteTodoEvent, "handleDeleteTodo"),
        editTodoEvent, "handleEditTodo"),
      editTodoCompleteEvent, "handleEditTodoComplete"),
    toggleEvent, "handleToggle")

\* onTodoListChanged subscribed twice.
modelHandlersTwice ==
  addHandler(addHandler(NoHandlers, todoListChangedEvent, "onTodoListChanged"),
             todoListChangedEvent, "onTodoListChanged")

modelHandlers == addHandler(NoHandlers, todoListChangedEvent, "onTodoListChanged")

\* View.emit(eventName, event) invokes `handler`.
Invokes(eventName, handler) ==
  \E i \in DOMAIN emit(viewHandlers, eventName) :
     emit(viewHandlers, eventName)[i] = handler

\* ------------------------------------------------------------------- Model
\* A task.
Todo(id, text, complete) == [id |-> id, text |-> text, complete |-> complete]

\* The new task put in front of the list.
addTodoFront(list, todo) == <<todo>> \o list

addTodo(list, todo) == Append(list, todo)

\* The edited task rebuilt without its complete flag.
editTodoResetsComplete(list, id, updatedText) ==
  [i \in DOMAIN list |->
     IF list[i].id = id THEN Todo(list[i].id, updatedText, FALSE) ELSE list[i]]

editTodo(list, id, updatedText) ==
  [i \in DOMAIN list |->
     IF list[i].id = id
       THEN Todo(list[i].id, updatedText, list[i].complete)
       ELSE list[i]]

\* Removal by position, where the position of an id that is not there is -1
\* and counts from the end: the last task goes.
deleteTodoByIndex(list, id) ==
  IF \E i \in DOMAIN list : list[i].id = id
    THEN SelectSeq(list, LAMBDA todo : todo.id # id)
    ELSE SubSeq(list, 1, Len(list) - 1)

deleteTodo(list, id) == SelectSeq(list, LAMBDA todo : todo.id # id)

\* The task marked complete instead of flipped.
toggleTodoSetsComplete(list, id) ==
  [i \in DOMAIN list |->
     IF list[i].id = id THEN Todo(list[i].id, list[i].text, TRUE) ELSE list[i]]

toggleTodo(list, id) ==
  [i \in DOMAIN list |->
     IF list[i].id = id
       THEN Todo(list[i].id, list[i].text, ~list[i].complete)
       ELSE list[i]]

\* ------------------------------------------------------------ localStorage
\* A stored value is the sequence of the JSON tokens of its text; a string
\* literal is its opening quote, its content and its closing quote.
\* getItem of a key that was never set.
Absent == <<"<absent>">>

\* The complete flag written as false whatever it is.
StringifyTodoNotComplete(todo) ==
  <<"{", "\"id\"", ":">> \o NumberToString(todo.id)
    \o <<",", "\"text\"", ":", "\"", todo.text, "\"",
         ",", "\"complete\"", ":", "false", "}">>

StringifyTodo(todo) ==
  <<"{", "\"id\"", ":">> \o NumberToString(todo.id)
    \o <<",", "\"text\"", ":", "\"", todo.text, "\"",
         ",", "\"complete\"", ":",
         IF todo.complete THEN "true" ELSE "false", "}">>

RECURSIVE StringifyElements(_)
StringifyElements(list) ==
  IF list = <<>> THEN <<>>
  ELSE IF Len(list) = 1 THEN StringifyTodo(list[1])
  ELSE StringifyTodo(list[1]) \o <<",">> \o StringifyElements(Tail(list))

\* JSON.stringify(this.todos)
JSONStringify(list) == <<"[">> \o StringifyElements(list) \o <<"]">>

\* localStorage.getItem('todos') handed to JSON.parse, which reads its argument
\* as text: the null of a key that was never set is read as the text null.
getItemText(stored) == IF stored = Absent THEN <<"null">> ELSE stored

\* The number of digits s starts with.
RECURSIVE DigitCount(_)
DigitCount(s) ==
  IF s = <<>> \/ ~IsDigit(Head(s)) THEN 0 ELSE 1 + DigitCount(Tail(s))

SyntaxError == [ok |-> FALSE, todo |-> Todo(0, "", FALSE), rest |-> <<>>]

\* The object of a task at the head of s: the task and the tokens after it.
\* A number is one or more digits, with no leading zero before other digits.
ParseTodo(s) ==
  IF Len(s) < 4 \/ SubSeq(s, 1, 3) # <<"{", "\"id\"", ":">> THEN SyntaxError
  ELSE
    LET k == DigitCount(SubSeq(s, 4, Len(s)))
        t == SubSeq(s, 4 + k, Len(s))
    IN
      IF k = 0 \/ (k > 1 /\ s[4] = "0") \/ Len(t) < 11 THEN SyntaxError
      ELSE IF \/ SubSeq(t, 1, 4) # <<",", "\"text\"", ":", "\"">>
              \/ SubSeq(t, 6, 9) # <<"\"", ",", "\"complete\"", ":">>
              \/ t[10] \notin {"true", "false"}
              \/ t[11] # "}"
        THEN SyntaxError
      ELSE [ok |-> TRUE,
            todo |-> Todo(parseInt(SubSeq(s, 4, 3 + k)), t[5], t[10] = "true"),
            rest |-> SubSeq(t, 12, Len(t))]

\* The elements of an array after its opening bracket, up to the end of the text.
RECURSIVE ParseElements(_)
ParseElements(s) ==
  LET first == ParseTodo(s) IN
    IF ~first.ok THEN [ok |-> FALSE, list |-> <<>>]
    ELSE IF first.rest = <<"]">> THEN [ok |-> TRUE, list |-> <<first.todo>>]
    ELSE IF Len(first.rest) < 2 \/ Head(first.rest) # "," THEN [ok |-> FALSE, list |-> <<>>]
    ELSE LET more == ParseElements(Tail(first.rest)) IN
           [ok |-> more.ok,
            list |-> IF more.ok THEN <<first.todo>> \o more.list ELSE <<>>]

\* JSON.parse(text) for the texts of null and of arrays of tasks: ok is false
\* when it throws a SyntaxError, null is true when the value is null.
JSONParse(text) ==
  IF text = <<"null">> THEN [ok |-> TRUE, null |-> TRUE, list |-> <<>>]
  ELSE IF text = <<"[", "]">> THEN [ok |-> TRUE, null |-> FALSE, list |-> <<>>]
  ELSE IF Len(text) < 2 \/ Head(text) # "[" THEN [ok |-> FALSE, null |-> FALSE, list |-> <<>>]
  ELSE LET r == ParseElements(Tail(text)) IN
         [ok |-> r.ok, null |-> FALSE, list |-> r.list]

\* -------------------------------------------------------------------- View
PlaceholderText == "Nothing to do! Add a task?"

\* The children of the list container: a placeholder paragraph, or one row per
\* task. A row's id is the text of the task's id; its checkbox shows complete;
\* its text is struck through when complete.
Placeholder ==
  [tag |-> "p", id |-> <<>>, checked |-> FALSE, text |-> PlaceholderText,
   struck |-> FALSE]

Row(todo) ==
  [tag |-> "li", id |-> NumberToString(todo.id), checked |-> todo.complete,
   text |-> todo.text, struck |-> todo.complete]

displayTodos(list) ==
  IF Len(list) = 0 THEN <<Placeholder>>
  ELSE [i \in DOMAIN list |-> Row(list[i])]

\* A target of an interaction inside the list container: the checkbox, the
\* editable span or the delete button of row `row`, a row itself ("li"), or the
\* placeholder paragraph ("p").
RowKinds == {"checkbox", "editable", "delete"}

\* The delete class given to the checkbox as well.
classNameCheckboxDelete(kind) ==
  IF kind = "editable" THEN "editable"
  ELSE IF kind \in {"delete", "checkbox"} THEN "delete"
  ELSE ""

\* event.target.className
className(kind) ==
  IF kind = "editable" THEN "editable"
  ELSE IF kind = "delete" THEN "delete"
  ELSE ""

\* event.target.type: an input of type checkbox, a button (a submit button by
\* default); other elements have no type.
type(kind) ==
  IF kind = "checkbox" THEN "checkbox"
  ELSE IF kind = "delete" THEN "submit"
  ELSE Undefined

\* event.target.parentElement.id: a row's id for what the row contains; rows and
\* the placeholder are children of the list container, which has no id.
parentElementId(children, kind, row) ==
  IF kind \in RowKinds THEN children[row].id ELSE <<>>

\* ------------------------------------------------------------------- state
VARIABLES
  todos,               \* Model.todos
  storage,             \* localStorage, key "todos"
  todoList,            \* View.todoList: the children of the list container
  inputValue,          \* View.input.value
  temporaryEditValue,  \* Controller.temporaryEditValue
  pc,                  \* position of the running handler
  event,               \* the interaction being handled, or the last one ignored
  call,                \* the Model call in progress
  log,                 \* what the Model call did so far, in order
  delivered,           \* payloads the Model call handed to onTodoListChanged
  addRun,              \* texts added since the list was empty, while only adds ran
  captured,            \* id of the row the pending temporaryEditValue was read from
  removedLast,         \* id of the task that was last, if the last call before this one deleted it
  previous,            \* the list held by the Model of the page that was reloaded
  handlers,            \* EventEmitter.handlers of an emitter on its own
  registered,          \* the addHandler calls made on that emitter, in order
  invoked              \* the handler calls made by its last emit, in order

\* What the application's handlers never touch.
otherVars == <<previous, handlers, registered, invoked>>

vars ==
  <<todos, storage, todoList, inputValue, temporaryEditValue, pc, event, call,
    log, delivered, addRun, captured, removedLast, previous, handlers,
    registered, invoked>>

\* No row (the id attribute of an element that has none).
NoRow == <<>>

\* No task id: ids start at 1.
NoId == 0

NoPrevious == [held |-> FALSE, list |-> <<>>]

\* No emit was made since the last addHandler.
NoEmit == [eventName |-> "none", params |-> "none", calls |-> <<>>]

NoEvent == [name |-> "none", kind |-> "none"]

NoCall == [op |-> "none", id |-> 0, text |-> "", matched |-> FALSE]

NoRun == [ok |-> FALSE, texts |-> <<>>]

\* Some task of list has this id.
Has(list, id) == \E i \in DOMAIN list : list[i].id = id

\* The state after `new Controller(new Model(), new View())` with nothing stored:
\* JSON.parse(null) || [] is the empty list, the input is empty,
\* temporaryEditValue was never assigned, and the initial list was displayed.
Init ==
  /\ storage = Absent
  /\ todos = <<>>
  /\ todoList = displayTodos(<<>>)
  /\ inputValue = ""
  /\ temporaryEditValue = Undefined
  /\ pc = "idle"
  /\ event = [name |-> "load", kind |-> "none"]
  /\ call = NoCall
  /\ log = <<>>
  /\ delivered = <<>>
  /\ addRun = [ok |-> TRUE, texts |-> <<>>]
  /\ captured = NoRow
  /\ removedLast = NoId
  /\ previous = NoPrevious
  /\ handlers = NoHandlers
  /\ registered = <<>>
  /\ invoked = NoEmit

\* ---------------------------------------------------------- Model methods
\* The first statement of a Model method: the assignment to this.todos.
Mutate(op, id, text, newTodos) ==
  /\ todos' = newTodos
  /\ call' = [op |-> op, id |-> id, text |-> text, matched |-> Has(todos, id)]
  /\ log' = <<"set">>
  /\ delivered' = <<>>
  /\ addRun' = IF op # "addTodo" THEN NoRun
               ELSE IF todos = <<>> THEN [ok |-> TRUE, texts |-> <<text>>]
               ELSE IF addRun.ok THEN [ok |-> TRUE, texts |-> Append(addRun.texts, text)]
               ELSE NoRun
  /\ removedLast' =
       IF op = "deleteTodo" /\ todos # <<>> /\ todos[Len(todos)].id = id
         THEN id
       ELSE IF op = "addTodo" THEN removedLast
       ELSE NoId
  /\ pc' = "update"
  /\ UNCHANGED otherVars

\* An interaction whose handler returns without calling the Model.
Ignore ==
  /\ call' = NoCall
  /\ log' = <<>>
  /\ delivered' = <<>>
  /\ pc' = "idle"
  /\ UNCHANGED <<todos, addRun, removedLast>>
  /\ UNCHANGED otherVars

\* The write going to another key: the value under "todos" stays as it was.
updateOtherKey ==
  /\ pc = "update"
  /\ pc' = "emit"
  /\ UNCHANGED <<todos, storage, todoList, inputValue, temporaryEditValue, event,
                 call, log, delivered, addRun, captured, removedLast>>
  /\ UNCHANGED otherVars

\* Model.update(): localStorage.setItem('todos', JSON.stringify(this.todos))
update ==
  /\ pc = "update"
  /\ storage' = JSONStringify(todos)
  /\ log' = Append(log, "write")
  /\ pc' = "emit"
  /\ UNCHANGED <<todos, todoList, inputValue, temporaryEditValue, event, call,
                 delivered, addRun, captured, removedLast>>
  /\ UNCHANGED otherVars

\* The display put off until after the handler: nothing is rendered here.
emitTodoListChangedDeferred ==
  /\ pc = "emit"
  /\ LET hs == emit(modelHandlers, todoListChangedEvent) IN
       /\ delivered' = delivered \o [i \in 1..Len(hs) |-> todos]
       /\ log' = log \o [i \in 1..Len(hs) |-> "notify"]
  /\ pc' = "tail"
  /\ UNCHANGED <<todos, storage, todoList, inputValue, temporaryEditValue, event,
                 call, addRun, captured, removedLast>>
  /\ UNCHANGED otherVars

\* this.emit(this.todoListChangedEvent(), this.todos): every registered handler
\* is onTodoListChanged, which calls view.displayTodos(todos).
emitTodoListChanged ==
  /\ pc = "emit"
  /\ LET hs == emit(modelHandlers, todoListChangedEvent) IN
       /\ delivered' = delivered \o [i \in 1..Len(hs) |-> todos]
       /\ log' = log \o [i \in 1..Len(hs) |-> "notify"]
       /\ todoList' = IF hs = <<>> THEN todoList ELSE displayTodos(todos)
  /\ pc' = "tail"
  /\ UNCHANGED <<todos, storage, inputValue, temporaryEditValue, event, call,
                 addRun, captured, removedLast>>
  /\ UNCHANGED otherVars

\* The captured value kept after the commit.
returnKeepsEdit ==
  /\ pc = "tail"
  /\ inputValue' = IF event.name = "submit" THEN "" ELSE inputValue
  /\ event' = NoEvent
  /\ call' = NoCall
  /\ log' = <<>>
  /\ delivered' = <<>>
  /\ removedLast' = IF call.op = "addTodo" THEN NoId ELSE removedLast
  /\ pc' = "idle"
  /\ UNCHANGED <<todos, storage, todoList, addRun, temporaryEditValue, captured>>
  /\ UNCHANGED otherVars

\* The Model method has returned; the rest of the Controller handler:
\* view.resetInput() after addTodo, temporaryEditValue = '' after editTodo.
return ==
  /\ pc = "tail"
  /\ inputValue' = IF event.name = "submit" THEN "" ELSE inputValue
  /\ temporaryEditValue' =
       IF event.name = "focusout" THEN "" ELSE temporaryEditValue
  /\ event' = NoEvent
  /\ call' = NoCall
  /\ log' = <<>>
  /\ delivered' = <<>>
  /\ captured' = IF event.name = "focusout" THEN NoRow ELSE captured
  /\ pc' = "idle"
  /\ removedLast' = IF call.op = "addTodo" THEN NoId ELSE removedLast
  /\ UNCHANGED <<todos, storage, todoList, addRun>>
  /\ UNCHANGED otherVars

\* ------------------------------------------------------------ interactions
\* The user changes the text of the form's input field.
TypeInput ==
  /\ pc = "idle"
  /\ \E s \in Texts : inputValue' = s
  /\ event' = [name |-> "type", kind |-> "none"]
  /\ Ignore
  /\ UNCHANGED <<storage, todoList, temporaryEditValue, captured>>

\* The id taken from the length of the list.
NewTodoByLength(list, text) == Todo(Len(list) + 1, text, FALSE)

\* The task handleAddTodo builds.
NewTodo(list, text) ==
  Todo(IF Len(list) > 0 THEN list[Len(list)].id + 1 ELSE 1, text, FALSE)

\* submit of the form -> View emits addTodo -> Controller.handleAddTodo, taken
\* while the id of the new task is at most maxId.
handleAddTodoUpTo(maxId) ==
  /\ pc = "idle"
  /\ Invokes(addTodoEvent, "handleAddTodo")
  /\ event' = [name |-> "submit", kind |-> "form"]
  /\ IF Truthy(inputValue)
       THEN LET todo == NewTodo(todos, inputValue) IN
              /\ todo.id <= maxId
              /\ Mutate("addTodo", todo.id, todo.text, addTodo(todos, todo))
       ELSE Ignore
  /\ UNCHANGED <<storage, todoList, inputValue, temporaryEditValue, captured>>

handleAddTodo == handleAddTodoUpTo(MaxId)

\* The elements of the list container an interaction can name.
Targets(kinds) ==
  {t \in [kind : kinds, row : 0..Len(todoList)] :
     \/ t.kind \in RowKinds /\ t.row >= 1 /\ todoList[t.row].tag = "li"
     \/ t.kind = "li" /\ t.row >= 1 /\ todoList[t.row].tag = "li"
     \/ t.kind = "p" /\ t.row = 1 /\ todoList[1].tag = "p"}

\* click in the list -> View emits deleteTodo -> Controller.handleDeleteTodo
handleDeleteTodo ==
  /\ pc = "idle"
  /\ Invokes(deleteTodoEvent, "handleDeleteTodo")
  /\ \E t \in Targets(RowKinds \cup {"li", "p"}) :
       /\ event' = [name |-> "click", kind |-> t.kind]
       /\ IF className(t.kind) = "delete"
            THEN LET id == parseInt(parentElementId(todoList, t.kind, t.row)) IN
                   Mutate("deleteTodo", id, "", deleteTodo(todos, id))
            ELSE Ignore
  /\ UNCHANGED <<storage, todoList, inputValue, temporaryEditValue, captured>>

\* input in the list -> View emits editTodo -> Controller.handleEditTodo.
\* The browser has changed the text of the edited span before the event.
handleEditTodo ==
  /\ pc = "idle"
  /\ Invokes(editTodoEvent, "handleEditTodo")
  /\ \E t \in Targets({"editable", "checkbox"}) :
       /\ event' = [name |-> "input", kind |-> t.kind]
       /\ IF className(t.kind) = "editable"
            THEN \E s \in Texts :
                   /\ todoList' = [todoList EXCEPT ![t.row].text = s]
                   /\ temporaryEditValue' = s
                   /\ captured' = IF Truthy(s) THEN todoList[t.row].id ELSE NoRow
            ELSE UNCHANGED <<todoList, temporaryEditValue, captured>>
  /\ Ignore
  /\ UNCHANGED <<storage, inputValue>>

\* focusout in the list -> View emits editTodoComplete ->
\* Controller.handleEditTodoComplete
handleEditTodoComplete ==
  /\ pc = "idle"
  /\ Invokes(editTodoCompleteEvent, "handleEditTodoComplete")
  /\ \E t \in Targets(RowKinds) :
       /\ event' = [name |-> "focusout", kind |-> t.kind]
       /\ IF Truthy(temporaryEditValue)
            THEN LET id == parseInt(parentElementId(todoList, t.kind, t.row)) IN
                   Mutate("editTodo", id, temporaryEditValue,
                          editTodo(todos, id, temporaryEditValue))
            ELSE Ignore
  /\ UNCHANGED <<storage, todoList, inputValue, temporaryEditValue, captured>>

\* change in the list -> View emits toggle -> Controller.handleToggle.
\* The browser has flipped the checkbox before the event.
handleToggle ==
  /\ pc = "idle"
  /\ Invokes(toggleEvent, "handleToggle")
  /\ \E t \in Targets({"checkbox", "editable"}) :
       /\ event' = [name |-> "change", kind |-> t.kind]
       /\ IF type(t.kind) = "checkbox"
            THEN LET id == parseInt(parentElementId(todoList, t.kind, t.row)) IN
                   /\ todoList' =
                        [todoList EXCEPT ![t.row].checked = ~todoList[t.row].checked]
                   /\ Mutate("toggleTodo", id, "", toggleTodo(todos, id))
            ELSE /\ Ignore
                 /\ UNCHANGED todoList
  /\ UNCHANGED <<storage, inputValue, temporaryEditValue, captured>>

Next ==
  \/ TypeInput
  \/ handleAddTodo
  \/ handleDeleteTodo
  \/ handleEditTodo
  \/ handleEditTodoComplete
  \/ handleToggle
  \/ update
  \/ emitTodoListChanged
  \/ return

Spec == Init /\ [][Next]_vars

\* ----------------------------------------------- the Model called directly
\* The ids a caller can pass: the ids tasks can have, and ids no task has.
CallIds == 0..(MaxId + 1)

CallEditTodo ==
  /\ pc = "idle"
  /\ \E id \in CallIds, text \in Texts :
       Mutate("editTodo", id, text, editTodo(todos, id, text))
  /\ event' = [name |-> "call", kind |-> "none"]
  /\ UNCHANGED <<storage, todoList, inputValue, temporaryEditValue, captured>>

CallDeleteTodo ==
  /\ pc = "idle"
  /\ \E id \in CallIds : Mutate("deleteTodo", id, "", deleteTodo(todos, id))
  /\ event' = [name |-> "call", kind |-> "none"]
  /\ UNCHANGED <<storage, todoList, inputValue, temporaryEditValue, captured>>

CallToggleTodo ==
  /\ pc = "idle"
  /\ \E id \in CallIds : Mutate("toggleTodo", id, "", toggleTodo(todos, id))
  /\ event' = [name |-> "call", kind |-> "none"]
  /\ UNCHANGED <<storage, todoList, inputValue, temporaryEditValue, captured>>

\* Tasks are added through the form; the three other methods are called with
\* every id, which covers what the list's handlers do with the id of a row.
ModelNext ==
  \/ TypeInput
  \/ handleAddTodo
  \/ update
  \/ emitTodoListChanged
  \/ return
  \/ CallEditTodo
  \/ CallDeleteTodo
  \/ CallToggleTodo

ModelSpec == Init /\ [][ModelNext]_vars

\* ------------------------------------------------ adding and deleting only
\* In IdSpec new tasks are added while the id they would get is at most
\* MaxIdWide.
MaxIdWide == 3

handleAddTodoWide == handleAddTodoUpTo(MaxIdWide)

IdNext ==
  \/ TypeInput
  \/ handleAddTodoWide
  \/ handleDeleteTodo
  \/ update
  \/ emitTodoListChanged
  \/ return

IdSpec == Init /\ [][IdNext]_vars

\* -------------------------------------------------------- loading the page
\* Values another page, another version or the user may have left under the
\* key: texts that are not JSON (the empty text, the text undefined, an array
\* cut short, an array with a comma too many).
InvalidStored ==
  {<<>>, <<"undefined">>, <<"[", "{">>,
   SubSeq(JSONStringify(<<Todo(1, "a", FALSE)>>), 1, 16) \o <<",", "]">>}

\* Texts that are JSON: nothing stored, null, and the lists a Model wrote.
ValidStored ==
  {Absent, <<"null">>}
    \cup {JSONStringify(l) :
           l \in {<<>>, <<Todo(1, "a", FALSE)>>, <<Todo(2, " ", TRUE)>>,
                  <<Todo(1, "a", TRUE), Todo(2, "a", FALSE)>>}}

\* The page is about to run its script: nothing is built yet.
LoadInit ==
  /\ storage \in ValidStored \cup InvalidStored
  /\ todos = <<>>
  /\ todoList = <<>>
  /\ inputValue = ""
  /\ temporaryEditValue = Undefined
  /\ pc = "load"
  /\ event = [name |-> "load", kind |-> "none"]
  /\ call = NoCall
  /\ log = <<>>
  /\ delivered = <<>>
  /\ addRun = NoRun
  /\ captured = NoRow
  /\ removedLast = NoId
  /\ previous = NoPrevious
  /\ handlers = NoHandlers
  /\ registered = <<>>
  /\ invoked = NoEmit

\* The catch a guarded constructor would have: the empty list on a SyntaxError.
constructWithFallback ==
  /\ pc = "load"
  /\ LET parsed == JSONParse(getItemText(storage)) IN
       /\ todos' = IF parsed.ok /\ ~parsed.null THEN parsed.list ELSE <<>>
       /\ todoList' = displayTodos(todos')
       /\ addRun' = IF todos' = <<>> THEN [ok |-> TRUE, texts |-> <<>>] ELSE NoRun
       /\ pc' = "idle"
  /\ previous' = NoPrevious
  /\ UNCHANGED <<storage, inputValue, temporaryEditValue, event, call, log,
                 delivered, captured, removedLast, handlers, registered, invoked>>

\* const app = new Controller(new Model(), new View()): the Model's constructor
\* runs first; when JSON.parse throws, nothing else runs: no View is built, no
\* listener is bound, nothing is rendered. Otherwise the list is the parsed
\* value, or [] for null, and the Controller displays it.
construct ==
  /\ pc = "load"
  /\ LET parsed == JSONParse(getItemText(storage)) IN
       IF parsed.ok
         THEN /\ todos' = IF parsed.null THEN <<>> ELSE parsed.list
              /\ todoList' = displayTodos(todos')
              /\ addRun' = IF todos' = <<>> THEN [ok |-> TRUE, texts |-> <<>>]
                            ELSE NoRun
              /\ pc' = "idle"
         ELSE /\ pc' = "failed"
              /\ UNCHANGED <<todos, todoList, addRun>>
  /\ previous' = NoPrevious
  /\ UNCHANGED <<storage, inputValue, temporaryEditValue, event, call, log,
                 delivered, captured, removedLast, handlers, registered, invoked>>

\* The user reloads the page between two interactions: everything but the
\* storage is gone.
reload ==
  /\ pc \in {"idle", "failed"}
  /\ previous' = IF pc = "idle" THEN [held |-> TRUE, list |-> todos] ELSE NoPrevious
  /\ todos' = <<>>
  /\ todoList' = <<>>
  /\ inputValue' = ""
  /\ temporaryEditValue' = Undefined
  /\ pc' = "load"
  /\ event' = [name |-> "load", kind |-> "none"]
  /\ call' = NoCall
  /\ log' = <<>>
  /\ delivered' = <<>>
  /\ addRun' = NoRun
  /\ captured' = NoRow
  /\ removedLast' = NoId
  /\ UNCHANGED <<storage, handlers, registered, invoked>>

LoadNext ==
  \/ construct
  \/ reload
  \/ TypeInput
  \/ handleAddTodo
  \/ update
  \/ emitTodoListChanged
  \/ return
  \/ CallEditTodo
  \/ CallDeleteTodo
  \/ CallToggleTodo

LoadSpec == LoadInit /\ [][LoadNext]_vars

\* ------------------------------------------------- an emitter on its own
\* At most MaxHandlers addHandler calls are made.
MaxHandlers == 3

EventNames == {addTodoEvent, todoListChangedEvent}

HandlerNames == {"handleAddTodo", "onTodoListChanged"}

\* What emit is given to pass on.
Params == {"p", "q"}

\* emitter.addHandler(eventName, handler)
EmitterAddHandler ==
  /\ Len(registered) < MaxHandlers
  /\ \E n \in EventNames, h \in HandlerNames :
       /\ handlers' = addHandler(handlers, n, h)
       /\ registered' = Append(registered, [eventName |-> n, handler |-> h])
  /\ invoked' = NoEmit
  /\ UNCHANGED <<todos, storage, todoList, inputValue, temporaryEditValue, pc,
                 event, call, log, delivered, addRun, captured, removedLast,
                 previous>>

\* emitter.emit(eventName, params): handler(...params) for each handler of the
\* name, in the order of the array.
EmitterEmit ==
  /\ \E n \in EventNames, p \in Params :
       LET hs == emit(handlers, n) IN
         invoked' = [eventName |-> n, params |-> p,
                     calls |-> [i \in 1..Len(hs) |->
                                  [handler |-> hs[i], params |-> p]]]
  /\ UNCHANGED <<todos, storage, todoList, inputValue, temporaryEditValue, pc,
                 event, call, log, delivered, addRun, captured, removedLast,
                 previous, handlers, registered>>

EmitterNext ==
  \/ EmitterAddHandler
  \/ EmitterEmit

EmitterSpec == Init /\ [][EmitterNext]_vars

\* ================================================================== claims

\* C1: starting from empty storage, after any sequence of Controller
\* interactions no two tasks of Model.todos have the same id.
IdsUnique ==
  \A i, j \in DOMAIN todos : i # j => todos[i].id # todos[j].id

\* A task was added to a list that had seen other operations than adds, and the
\* list now holds two tasks.
IdsUniqueWitness ==
  /\ pc = "tail"
  /\ call.op = "addTodo"
  /\ ~addRun.ok
  /\ Len(todos) = 2

\* C2: while only adds have run since the list was empty, the k-th added task
\* is the k-th task of the list, has id k, the text it was added with, and
\* complete = false.
AddsNumberFromOne ==
  addRun.ok =>
    /\ Len(todos) = Len(addRun.texts)
    /\ \A k \in DOMAIN todos : todos[k] = Todo(k, addRun.texts[k], FALSE)

\* Two adds in a row from the empty list, the second just done.
AddsNumberFromOneWitness ==
  /\ addRun.ok
  /\ Len(addRun.texts) = 2
  /\ call.op = "addTodo"
  /\ pc = "tail"

\* C3: when a Model mutation reaches its end it has handed exactly one
\* todoListChanged notification to the handler, carrying the list as it then
\* stands; nothing is notified anywhere else.
NotifiedOncePerMutation ==
  /\ pc = "tail" => delivered = <<todos>>
  /\ pc # "tail" => delivered = <<>>

\* deleteTodo has run to its end on a list that keeps a task.
NotifiedOncePerMutationWitness ==
  /\ pc = "tail"
  /\ call.op = "deleteTodo"
  /\ call.matched
  /\ todos # <<>>
  /\ delivered = <<todos>>

\* A Controller handler has returned: the event loop is idle and the last thing
\* it ran was a handler, not the construction and not typing into the form.
HandlerReturned == pc = "idle" /\ event.name \notin {"load", "type"}

\* C4 as stated: whenever a notification is delivered and whenever a Model
\* mutation or a Controller handler returns, the stored value is the
\* serialization of the current list.
StoredIsListAtEveryReturn ==
  (pc \in {"emit", "tail"} \/ HandlerReturned) => storage = JSONStringify(todos)

\* C4 amended: when a notification is delivered and when a Model mutation
\* returns, the stored value is the serialization of the current list, written
\* after the list update and before the notification; when a Controller handler
\* returns, it is that serialization, or nothing is stored yet and the list is
\* empty.
WriteThrough ==
  /\ pc \in {"emit", "tail"} => storage = JSONStringify(todos)
  /\ pc = "emit" => log = <<"set", "write">>
  /\ pc = "tail" => log = <<"set", "write", "notify">>
  /\ HandlerReturned =>
       \/ storage = JSONStringify(todos)
       \/ storage = Absent /\ todos = <<>>

\* A notification is about to be delivered for a list of two tasks that differs
\* from what was stored before the call: the second task was just added.
WriteThroughWitness ==
  /\ pc = "emit"
  /\ call.op = "addTodo"
  /\ Len(todos) = 2
  /\ storage = JSONStringify(todos)

\* C5: editTodo(id, t) keeps the length and the order of the list, keeps every
\* id and every complete flag, sets the text of the task whose id is id to t,
\* and leaves every other task as it was.
EditChangesOnlyText ==
  [][(pc = "idle" /\ call'.op = "editTodo") =>
       /\ Len(todos') = Len(todos)
       /\ \A i \in DOMAIN todos :
            /\ todos'[i].id = todos[i].id
            /\ todos'[i].complete = todos[i].complete
            /\ todos[i].id = call'.id => todos'[i].text = call'.text
            /\ todos[i].id # call'.id => todos'[i] = todos[i]]_vars

\* editTodo has set the text of a completed task in a list of two.
EditChangesOnlyTextWitness ==
  /\ pc = "update"
  /\ call.op = "editTodo"
  /\ Len(todos) = 2
  /\ \E i \in DOMAIN todos :
       todos[i].id = call.id /\ todos[i].text = call.text /\ todos[i].complete

\* C6: toggleTodo(id) flips complete on the task whose id is id, keeps its id
\* and text, leaves every other task and the order as they were; toggleTodo(id)
\* applied to the result gives back the list it started from.
ToggleFlipsOnlyComplete ==
  [][(pc = "idle" /\ call'.op = "toggleTodo") =>
       /\ Len(todos') = Len(todos)
       /\ \A i \in DOMAIN todos :
            /\ todos'[i].id = todos[i].id
            /\ todos'[i].text = todos[i].text
            /\ todos[i].id = call'.id => todos'[i].complete = ~todos[i].complete
            /\ todos[i].id # call'.id => todos'[i] = todos[i]
       /\ toggleTodo(todos', call'.id) = todos]_vars

\* toggleTodo has turned a completed task of a list of two back to not complete.
ToggleFlipsOnlyCompleteWitness ==
  /\ pc = "update"
  /\ call.op = "toggleTodo"
  /\ Len(todos) = 2
  /\ \E i \in DOMAIN todos : todos[i].id = call.id /\ ~todos[i].complete
  /\ \E i \in DOMAIN todos : todos[i].id # call.id /\ todos[i].complete

\* C7: deleteTodo(id) shortens the list by one when a task has that id and by
\* nothing otherwise; the tasks that remain are unaltered and in their order.
DeleteRemovesOne ==
  [][(pc = "idle" /\ call'.op = "deleteTodo") =>
       /\ Len(todos') = Len(todos) - (IF Has(todos, call'.id) THEN 1 ELSE 0)
       /\ \A i \in DOMAIN todos :
            todos[i].id # call'.id =>
              LET k == Cardinality({j \in 1..i : todos[j].id # call'.id}) IN
                k \in DOMAIN todos' /\ todos'[k] = todos[i]]_vars

\* deleteTodo has removed the first of two tasks.
DeleteRemovesOneWitness ==
  /\ pc = "update"
  /\ call.op = "deleteTodo"
  /\ call.matched
  /\ Len(todos) = 1
  /\ todos[1].id = 2

\* C8: editTodo, deleteTodo or toggleTodo called with an id no task has leaves
\* the list as it was, and still runs to its end with the write to storage done
\* and one notification delivered.
UnmatchedIdIsNoOp ==
  /\ [][(pc = "idle" /\ call'.op \in {"editTodo", "deleteTodo", "toggleTodo"}
           /\ ~Has(todos, call'.id)) => todos' = todos]_vars
  /\ [](pc = "tail" /\ call.op \in {"editTodo", "deleteTodo", "toggleTodo"}
           /\ ~call.matched =>
          /\ log = <<"set", "write", "notify">>
          /\ storage = JSONStringify(todos)
          /\ delivered = <<todos>>)

\* deleteTodo called on a list of two with an id neither task has, at its end.
UnmatchedIdIsNoOpWitness ==
  /\ pc = "tail"
  /\ call.op = "deleteTodo"
  /\ ~call.matched
  /\ Len(todos) = 2

\* What String.prototype.trim leaves of a text.
Trimmed(text) == IF text = " " THEN "" ELSE text

\* C9 as stated: every task's text is non-empty and not whitespace-only.
TextsNotBlank == \A i \in DOMAIN todos : Trimmed(todos[i].text) # ""

\* C9 amended: every task's text is a non-empty string; the add handler and the
\* edit-commit handler reject the empty input and accept whitespace-only input.
TextsNonEmpty == \A i \in DOMAIN todos : todos[i].text # ""

\* An edit has been committed that left a task with a whitespace-only text.
TextsNonEmptyWitness ==
  /\ pc = "tail"
  /\ call.op = "editTodo"
  /\ \E i \in DOMAIN todos : todos[i].id = call.id /\ todos[i].text = " "

\* The precondition of the handler of interaction e fails in the current state.
PreconditionFails(e) ==
  \/ e.name = "submit" /\ inputValue = ""
  \/ e.name = "click" /\ e.kind # "delete"
  \/ e.name = "change" /\ e.kind # "checkbox"
  \/ e.name = "input" /\ e.kind # "editable"
  \/ e.name = "focusout" /\ temporaryEditValue \in {"", Undefined}

\* C10: an interaction whose handler precondition fails leaves Model.todos and
\* the stored value unchanged, notifies nothing, and its handler returns.
FailedPreconditionChangesNothing ==
  [][(pc = "idle" /\ PreconditionFails(event')) =>
       /\ todos' = todos
       /\ storage' = storage
       /\ delivered' = <<>>
       /\ log' = <<>>
       /\ pc' = "idle"]_vars

\* A focus loss with nothing captured was ignored on a list that holds a task
\* and has been stored.
FailedPreconditionChangesNothingWitness ==
  /\ pc = "idle"
  /\ event.name = "focusout"
  /\ temporaryEditValue = ""
  /\ todos # <<>>
  /\ storage = JSONStringify(todos)

\* C11: a new Model built after a reload holds the list the previous Model
\* held, equal task by task in order on id, text and complete; with nothing
\* stored under the key it starts with the empty list.
ReloadKeepsList ==
  [][(pc = "load" /\ pc' # "load") =>
       /\ previous.held =>
            /\ pc' = "idle"
            /\ Len(todos') = Len(previous.list)
            /\ \A i \in DOMAIN todos' :
                 /\ todos'[i].id = previous.list[i].id
                 /\ todos'[i].text = previous.list[i].text
                 /\ todos'[i].complete = previous.list[i].complete
       /\ storage = Absent => pc' = "idle" /\ todos' = <<>>]_vars

\* A Model was built from what a previous Model wrote: two tasks, one of them
\* complete, one with a whitespace-only text.
ReloadKeepsListWitness ==
  /\ pc = "idle"
  /\ event.name = "load"
  /\ Len(todos) = 2
  /\ storage = JSONStringify(todos)
  /\ \E i \in DOMAIN todos : todos[i].complete /\ todos[i].text = " "
  /\ \E i \in DOMAIN todos : ~todos[i].complete

\* C14: when the stored value is not valid JSON, constructing the Model fails:
\* no Model, no Controller and no rendered list come into existence, the list
\* does not fall back to empty, and the stored value stays as it is.
InvalidStoredAbortsLoad ==
  /\ [][(pc = "load" /\ pc' # "load" /\ storage \in InvalidStored) =>
          pc' = "failed" /\ todoList' = <<>> /\ storage' = storage]_vars
  /\ [][pc = "failed" =>
          pc' \in {"failed", "load"} /\ todoList' = <<>> /\ storage' = storage]_vars

\* The load has failed on an array cut short.
InvalidStoredAbortsLoadWitness ==
  /\ pc = "failed"
  /\ storage = <<"[", "{">>
  /\ todoList = <<>>

\* The view renders the list: one row per task, in order, with the task's
\* id, text and complete flag, or the placeholder alone for the empty list.
Mirrors(children, list) ==
  IF list = <<>>
    THEN Len(children) = 1 /\ children[1].tag = "p"
    ELSE /\ Len(children) = Len(list)
         /\ \A i \in DOMAIN list :
              /\ children[i].tag = "li"
              /\ parseInt(children[i].id) = list[i].id
              /\ children[i].text = list[i].text
              /\ children[i].checked = list[i].complete

\* C12: right after the Controller is constructed and after every Controller
\* handler returns, the View shows exactly one row per task of Model.todos, in
\* list order, each with the task's id, text and complete flag; for the empty
\* list it shows the placeholder alone.
ViewMirrorsModel == pc = "idle" => Mirrors(todoList, todos)

\* C13: emit(eventName, params) calls each handler registered for eventName
\* once per registration, in registration order, each with params, and calls no
\* handler registered under another name; with none registered it calls nothing.
EmitCallsRegisteredInOrder ==
  invoked.eventName # "none" =>
    LET expected ==
          SelectSeq(registered, LAMBDA r : r.eventName = invoked.eventName)
    IN
      /\ Len(invoked.calls) = Len(expected)
      /\ \A i \in DOMAIN expected :
           /\ invoked.calls[i].handler = expected[i].handler
           /\ invoked.calls[i].params = invoked.params

\* An emit has called two different handlers of its name, in their order, with
\* a handler of the other name registered between them.
EmitCallsRegisteredInOrderWitness ==
  /\ Len(registered) = 3
  /\ registered[1].eventName = invoked.eventName
  /\ registered[2].eventName # invoked.eventName
  /\ registered[3].eventName = invoked.eventName
  /\ Len(invoked.calls) = 2
  /\ invoked.calls[1].handler # invoked.calls[2].handler

\* C15: an input event on an editable element puts the element's text in
\* temporaryEditValue and changes neither the list nor the storage, and nothing
\* else but the end of a commit changes temporaryEditValue; a focus loss with a
\* non-empty captured value calls Model.editTodo once, with that value, and the
\* commit ends with the captured value cleared; a focus loss with nothing
\* captured changes nothing, writes nothing and notifies nothing.
EditCaptureThenCommit ==
  /\ [][pc = "idle" =>
          /\ (event'.name = "input" /\ event'.kind = "editable") =>
               /\ todos' = todos /\ storage' = storage /\ pc' = "idle"
               /\ log' = <<>> /\ delivered' = <<>>
               /\ \E i \in DOMAIN todoList' :
                    todoList'[i].tag = "li" /\ todoList'[i].text = temporaryEditValue'
          /\ ~(event'.name = "input" /\ event'.kind = "editable") =>
               temporaryEditValue' = temporaryEditValue
          /\ (event'.name = "focusout" /\ temporaryEditValue \notin {"", Undefined}) =>
               /\ pc' = "update"
               /\ call'.op = "editTodo"
               /\ call'.text = temporaryEditValue
               /\ log' = <<"set">>
          /\ (event'.name = "focusout" /\ temporaryEditValue \in {"", Undefined}) =>
               /\ todos' = todos /\ storage' = storage /\ pc' = "idle"
               /\ log' = <<>> /\ delivered' = <<>>]_vars
  /\ [][(pc \in {"update", "emit"}) =>
          (temporaryEditValue' = temporaryEditValue)]_vars
  /\ [][pc = "tail" =>
          /\ pc' = "idle"
          /\ temporaryEditValue' =
               IF event.name = "focusout" THEN "" ELSE temporaryEditValue]_vars

\* The commit of a value captured on the second of two rows has reached its end.
EditCaptureThenCommitWitness ==
  /\ pc = "tail"
  /\ event.name = "focusout"
  /\ call.op = "editTodo"
  /\ call.text = temporaryEditValue
  /\ Len(todos) = 2
  /\ todos[2].id = call.id
  /\ todos[2].text = call.text
  /\ todos[1].text # call.text

\* C16: when a mutation returns to the Controller handler that made it, the
\* list is already rendered as it now stands and, for add, the input field is
\* not yet cleared; between the list update and the end of the rendering no
\* other handler starts and the list does not change.
DispatchIsSynchronous ==
  /\ [](pc = "tail" =>
          /\ todoList = displayTodos(todos)
          /\ event.name = "submit" => inputValue # "" /\ inputValue = call.text)
  /\ [][(pc \in {"update", "emit"}) =>
          /\ event' = event
          /\ call' = call
          /\ todos' = todos
          /\ pc' = IF pc = "update" THEN "emit" ELSE "tail"]_vars

\* The second task has been added and rendered; the input field still holds
\* its text.
DispatchIsSynchronousWitness ==
  /\ pc = "tail"
  /\ event.name = "submit"
  /\ inputValue = "a"
  /\ Len(todos) = 2
  /\ Len(todoList) = 2
  /\ todoList[2].text = "a"

\* C17 as stated: when the last task of the list is deleted and a task is then
\* added, the new task gets the id of the deleted task, or 1 if the list had
\* become empty.
AddAfterDeleteTakesDeletedId ==
  [][(pc = "idle" /\ call'.op = "addTodo" /\ removedLast # NoId) =>
       call'.id = IF todos = <<>> THEN 1 ELSE removedLast]_vars

\* C17 amended: when the last task of the list is deleted and a task is then
\* added, the new task gets the id after that of the task that is now last, or
\* 1 if the list had become empty: the id of the deleted task when the task
\* before it had the id just below, a smaller id otherwise, never a larger one.
AddAfterDeleteTakesIdAfterLast ==
  [][(pc = "idle" /\ call'.op = "addTodo" /\ removedLast # NoId) =>
       /\ call'.id = IF todos = <<>> THEN 1 ELSE todos[Len(todos)].id + 1
       /\ call'.id <= removedLast
       /\ (todos # <<>> /\ todos[Len(todos)].id = removedLast - 1) =>
            call'.id = removedLast]_vars

\* A task was added after the last task, of id 3, was deleted from a list whose
\* task of id 2 was gone already: it has id 2.
AddAfterDeleteTakesIdAfterLastWitness ==
  /\ pc = "tail"
  /\ call.op = "addTodo"
  /\ removedLast = 3
  /\ call.id = 2
  /\ Len(todos) = 2

\* C18: ids are positive and strictly increasing in list order, so the id of
\* the last task is the largest id and the id of a new task is the largest id
\* plus one.
IdsIncrease ==
  /\ \A i \in DOMAIN todos : todos[i].id >= 1
  /\ \A i \in DOMAIN todos : i < Len(todos) => todos[i].id < todos[i + 1].id
  /\ todos # <<>> =>
       LET largest == CHOOSE m \in {todos[i].id : i \in DOMAIN todos} :
                        \A i \in DOMAIN todos : todos[i].id <= m
       IN /\ todos[Len(todos)].id = largest
          /\ NewTodo(todos, "a").id = largest + 1

\* The first of two tasks was deleted: the list holds the task of id 2 alone.
IdsIncreaseWitness ==
  /\ pc = "tail"
  /\ call.op = "deleteTodo"
  /\ Len(todos) = 1
  /\ todos[1].id = 2

\* C19: when the edit-commit handler calls Model.editTodo(id, value), id is the
\* id of the row on which value was captured by the edit-capture handler.
EditGoesToCapturedRow ==
  [][(pc = "idle" /\ event'.name = "focusout" /\ call'.op = "editTodo") =>
       NumberToString(call'.id) = captured]_vars

====
